---- MODULE Spec2Model ----
(***************************************************************************)
(* Model of the Tauri-signature-to-Kubernetes-secret action                *)
(* (src/src/main.js, class TauriSignatureExtractor).                       *)
(*                                                                         *)
(* Strings the code inspects character by character (file names, file      *)
(* contents, catalog keys, payload keys and values) are sequences of       *)
(* one-character strings.  JavaScript objects are sequences of key/value   *)
(* entries in insertion order, which is the order Object.entries yields.   *)
(* The file system and the kubectl client are the environment: what a      *)
(* directory lists, what a file holds and whether a kubectl call succeeds  *)
(* are chosen when the code asks.                                          *)
(*                                                                         *)
(* Spec is one run of run().  UpdateSpec and CreateSpec are the exported   *)
(* class's updateKubernetesSecret and createSecret called directly, on     *)
(* any catalog and on payloads of several entries.  RaceSpec is two runs   *)
(* reconciling the same secret side by side.                               *)
(***************************************************************************)
EXTENDS Integers, Sequences, FiniteSets, TLC

\* ------------------------------------------------------------------ bounds
\* Number of directory entries the bundle tree holds over one run.
MaxFiles == 2
\* Number of entries of the largest payload createSecret is called on.
MaxEntries == 11

\* ----------------------------------------------------------------- strings
\* The characters of the string tokens the code concatenates into keys.
Chars(s) ==
  CASE s = "msi" -> <<"m","s","i">>
    [] s = "nsis" -> <<"n","s","i","s">>
    [] s = "macos" -> <<"m","a","c","o","s">>
    [] s = "dmg" -> <<"d","m","g">>
    [] s = "deb" -> <<"d","e","b">>
    [] s = "rpm" -> <<"r","p","m">>
    [] s = "appimage" -> <<"a","p","p","i","m","a","g","e">>
    [] s = "windows" -> <<"w","i","n","d","o","w","s">>
    [] s = "linux" -> <<"l","i","n","u","x">>
    [] s = "tauri-sig" -> <<"t","a","u","r","i","-","s","i","g">>
    [] s = "metadata" -> <<"m","e","t","a","d","a","t","a">>
    [] s = ".sig" -> <<".","s","i","g">>
    [] s = ".msi.sig" -> <<".","m","s","i",".","s","i","g">>
    [] s = ".zip.sig" -> <<".","z","i","p",".","s","i","g">>
    [] s = ".dmg.sig" -> <<".","d","m","g",".","s","i","g">>
    [] s = ".app.tar.gz.sig" ->
         <<".","a","p","p",".","t","a","r",".","g","z",".","s","i","g">>
    [] s = ".deb.sig" -> <<".","d","e","b",".","s","i","g">>

\* String.prototype.endsWith
EndsWith(s, suf) ==
  /\ Len(suf) <= Len(s)
  /\ SubSeq(s, Len(s) - Len(suf) + 1, Len(s)) = suf

\* String.prototype.includes
Includes(s, sub) ==
  \E i \in 1..(Len(s) - Len(sub) + 1) : SubSeq(s, i, i + Len(sub) - 1) = sub

\* White space as String.prototype.trim understands it.
IsSpace(c) == c \in {" ", "\t", "\n", "\r"}

RECURSIVE TrimLeft(_)
TrimLeft(s) ==
  IF s = <<>> THEN <<>>
  ELSE IF IsSpace(Head(s)) THEN TrimLeft(Tail(s)) ELSE s

RECURSIVE TrimRight(_)
TrimRight(s) ==
  IF s = <<>> THEN <<>>
  ELSE IF IsSpace(s[Len(s)]) THEN TrimRight(SubSeq(s, 1, Len(s) - 1)) ELSE s

\* A trim that removes nothing.
Trim_Nothing(s) == s

\* String.prototype.trim
Trim(s) == TrimRight(TrimLeft(s))

\* path.basename(file, ext) for a name without directory separators: the
\* suffix is removed, and a name equal to the suffix gives the empty string.
Basename(file, ext) ==
  IF file = ext THEN <<>>
  ELSE IF EndsWith(file, ext) THEN SubSeq(file, 1, Len(file) - Len(ext))
  ELSE file

Letters ==
  {"a","b","c","d","e","f","g","h","i","j","k","l","m",
   "n","o","p","q","r","s","t","u","v","w","x","y","z",
   "A","B","C","D","E","F","G","H","I","J","K","L","M",
   "N","O","P","Q","R","S","T","U","V","W","X","Y","Z"}
Digits == {"0","1","2","3","4","5","6","7","8","9"}

\* The characters /[^a-zA-Z0-9._-]/ does not match.
KeyChar(c) == c \in Letters \cup Digits \cup {".", "_", "-"}

\* A sanitizer that leaves the name as it is.
Sanitize_Keep(s) == s

\* .replace(/[^a-zA-Z0-9._-]/g, '_')
Sanitize(s) == [i \in 1..Len(s) |-> IF KeyChar(s[i]) THEN s[i] ELSE "_"]

\* ------------------------------------------------------------------ base64
B64Alphabet ==
  <<"A","B","C","D","E","F","G","H","I","J","K","L","M",
    "N","O","P","Q","R","S","T","U","V","W","X","Y","Z",
    "a","b","c","d","e","f","g","h","i","j","k","l","m",
    "n","o","p","q","r","s","t","u","v","w","x","y","z",
    "0","1","2","3","4","5","6","7","8","9","+","/">>

\* UTF-8 code of the (ASCII) characters signature contents are made of.
CharCode(c) ==
  CASE c = "a" -> 97 [] c = "b" -> 98 [] c = "c" -> 99
    [] c = "x" -> 120 [] c = "y" -> 121 [] c = "z" -> 122
    [] c = "1" -> 49 [] c = "2" -> 50 [] c = "3" -> 51
    [] c = " " -> 32 [] c = "\n" -> 10 [] c = "\t" -> 9 [] c = "\r" -> 13

B64Char(n) == B64Alphabet[n + 1]

\* Buffer.from(s).toString('base64'): three bytes become four characters,
\* a last group of one or two bytes is padded with '='.
RECURSIVE Base64(_)
Base64(s) ==
  IF s = <<>> THEN <<>>
  ELSE IF Len(s) = 1 THEN
    LET a == CharCode(s[1])
    IN  <<B64Char(a \div 4), B64Char((a % 4) * 16), "=", "=">>
  ELSE IF Len(s) = 2 THEN
    LET a == CharCode(s[1])
        b == CharCode(s[2])
    IN  <<B64Char(a \div 4), B64Char((a % 4) * 16 + b \div 16),
          B64Char((b % 16) * 4), "=">>
  ELSE
    LET a == CharCode(s[1])
        b == CharCode(s[2])
        c == CharCode(s[3])
    IN  <<B64Char(a \div 4), B64Char((a % 4) * 16 + b \div 16),
          B64Char((b % 16) * 4 + c \div 64), B64Char(c % 64)>>
        \o Base64(SubSeq(s, 4, Len(s)))

\* --------------------------------------------------------------- constants
\* const PLATFORM_PATHS: the bundle categories of each platform, in order.
PLATFORM_PATHS ==
  [windows |-> <<"msi", "nsis">>,
   macos |-> <<"macos", "dmg">>,
   linux |-> <<"deb", "rpm", "appimage">>]

\* Property names every object literal inherits from Object.prototype.
ObjectPrototypeKeys == {"constructor", "toString", "valueOf", "__proto__"}

\* The value of PLATFORM_PATHS[platform]: an own property is the category
\* list, an inherited one is a truthy value that is not iterable, anything
\* else is undefined.
PlatformLookup(platform) ==
  IF platform \in DOMAIN PLATFORM_PATHS THEN "own"
  ELSE IF platform \in ObjectPrototypeKeys THEN "inherited"
  ELSE "undefined"

\* ------------------------------------------------------------------ inputs
\* Values of the 'platforms' input after split(',') and trim: the default,
\* an order other than PLATFORM_PATHS', single platforms, a name that is
\* no platform, a name Object.prototype has, and a repeated name.
PlatformLists ==
  { <<"windows", "macos", "linux">>,
    <<"linux", "windows">>,
    <<"macos">>,
    <<"windows">>,
    <<"freebsd", "linux">>,
    <<"macos", "constructor">>,
    <<"linux", "linux">> }

\* Values of a required text input: missing (empty) or given.
TextInputs == {<<>>, <<"s">>}
\* Values of kubernetes-config: missing, white space only, or a document.
KubeConfigInputs == {<<>>, <<" ", "\n">>, <<"k">>}
\* Values of secret-key-prefix: missing (the default applies) or given.
PrefixInputs == {<<>>, <<"s","i","g">>}

\* File names: the signature Tauri writes beside each kind of bundle, a
\* name with both Windows markers, names outside the key character set,
\* a bare suffix, and a file that is no signature.
MsiSig == <<"A","p","p","_","x","6","4",".","m","s","i",".","s","i","g">>
MsiZipSig == <<"A",".","m","s","i",".","s","i","g",".","z","i","p",".","s","i","g">>
DmgSig == <<"A",".","d","m","g",".","s","i","g">>
AppTarSig == <<"A",".","a","p","p",".","t","a","r",".","g","z",".","s","i","g">>
DebSig == <<"a",".","d","e","b",".","s","i","g">>
SpaceSig == <<"a"," ","b",".","s","i","g">>
UnderSig == <<"a","_","b",".","s","i","g">>
BareSig == <<".","s","i","g">>
TextFile == <<"a",".","t","x","t">>

\* Entry names a category directory may list.
FileNamesIn(bundleType) ==
  {BareSig, TextFile} \cup
  CASE bundleType = "msi" -> {MsiSig, MsiZipSig}
    [] bundleType = "nsis" -> {DebSig}
    [] bundleType = "macos" -> {AppTarSig, SpaceSig}
    [] bundleType = "dmg" -> {DmgSig}
    [] bundleType = "deb" -> {DebSig}
    [] bundleType = "rpm" -> {SpaceSig, UnderSig}
    [] bundleType = "appimage" -> {SpaceSig}

\* What a signature file may hold.
FileContents ==
  { <<"a","b","c","1","2","3">>,
    <<" ","x","y","z","\n">>,
    <<" ","\n">> }

\* Listings of a directory: at most n distinct names, in any order.
Listings(bundleType, n) ==
  {l \in UNION {[1..k -> FileNamesIn(bundleType)] : k \in 0..n} :
     \A i, j \in 1..Len(l) : i # j => l[i] # l[j]}

\* ------------------------------------------------------------------- state
VARIABLES
  bundlePath,      \* this.bundlePath
  kubeConfig,      \* this.kubeConfig
  secretName,      \* this.secretName
  keyPrefix,       \* this.keyPrefix
  platforms,       \* this.platforms
  signatures,      \* this.signatures: entries [k |-> platform, v |-> catalog]
  signatureCount,  \* this.signatureCount
  pc,              \* where run() stands
  pIdx,            \* position of extractSignatures' loop over this.platforms
  bIdx,            \* position of the loop over PLATFORM_PATHS[platform]
  sigFiles,        \* the signature files of the current directory not yet read
  platformSigs,    \* extractPlatformSignatures' local 'signatures'
  secretExists,    \* updateKubernetesSecret's local
  mainSignature,   \* prepareSecretData's local: <<record>>, or <<>> for null
  secretData,      \* the payload: entries [k |-> key, v |-> value]
  chunkAt,         \* createSecretWithPatches' loop variable i
  store,           \* the secret in the cluster: [present, data]
  calls,           \* the kubectl invocations made, in order
  kubeDir,         \* whether ~/.kube was created by this run
  kubeFile,        \* whether ~/.kube/config was written by this run
  outputs,         \* what core.setOutput was given
  failed,          \* number of core.setFailed calls
  failure,         \* the error that reached run's handler
  log,             \* the last line logged: [level, what]
  now,             \* the clock new Date() reads, in milliseconds
  filesSeen,       \* number of directory entries listed so far
  sigRead,         \* the loop's sigFile and what reading it gave: <<Met>>, <<>> outside the loop
  bundleExists,    \* whether the bundle path exists on disk
  racers           \* the runs reconciling the same secret side by side, when there are any

vars ==
  <<bundlePath, kubeConfig, secretName, keyPrefix, platforms, signatures,
    signatureCount, pc, pIdx, bIdx, sigFiles, platformSigs, secretExists,
    secretData, chunkAt, store, calls, kubeDir, kubeFile, outputs, failed,
    failure, log, now, filesSeen, sigRead, mainSignature, bundleExists,
    racers>>

inputVars == <<bundlePath, kubeConfig, secretName, keyPrefix, platforms, bundleExists>>
extractVars == <<signatures, signatureCount, pIdx, bIdx, sigFiles, platformSigs, now, filesSeen,
                sigRead>>
secretVars == <<secretExists, mainSignature, secretData, chunkAt, store>>
setupVars == <<kubeDir, kubeFile>>
raceVars == <<racers>>

\* ---------------------------------------------------------- object helpers
\* Position of key k among the entries of object obj, 0 when absent.
IndexOf(obj, k) ==
  IF \E i \in 1..Len(obj) : obj[i].k = k
  THEN CHOOSE i \in 1..Len(obj) : obj[i].k = k
  ELSE 0

\* An assignment that leaves a key that is already there alone.
Put_KeepFirst(obj, k, v) ==
  IF IndexOf(obj, k) = 0 THEN Append(obj, [k |-> k, v |-> v]) ELSE obj

\* obj[k] = v: a new key is appended, an existing key keeps its position.
Put(obj, k, v) ==
  IF IndexOf(obj, k) = 0 THEN Append(obj, [k |-> k, v |-> v])
  ELSE [obj EXCEPT ![IndexOf(obj, k)] = [k |-> k, v |-> v]]

Keys(obj) == {obj[i].k : i \in 1..Len(obj)}

\* Message of a log line or an error.
Line(level, what) == [level |-> level, what |-> what]

\* One kubectl invocation: the sub-command, how the payload travels
\* ("none", "stdin" or "argv"), the payload entries it carries and whether
\* it exited with status zero.
Call(cmd, via, data, ok) == [cmd |-> cmd, via |-> via, data |-> data, ok |-> ok]

\* JSON.stringify of an object, and the object JSON.parse gives back.
JsonStringify(obj) == [json |-> obj]

NoOutputs == [set |-> {}, found |-> "", updated |-> "", hashes |-> JsonStringify(<<>>)]

\* -------------------------------------------------------------------- Init
\* constructor(): the inputs are read, the catalog is empty, the count zero.
Init ==
  /\ bundlePath \in TextInputs
  /\ kubeConfig \in KubeConfigInputs
  /\ secretName \in TextInputs
  /\ \E p \in PrefixInputs : keyPrefix = IF p = <<>> THEN Chars("tauri-sig") ELSE p
  /\ platforms \in PlatformLists
  /\ signatures = <<>>
  /\ signatureCount = 0
  /\ pc = "start"
  /\ pIdx = 0
  /\ bIdx = 0
  /\ sigFiles = <<>>
  /\ platformSigs = <<>>
  /\ secretExists = FALSE
  /\ mainSignature = <<>>
  /\ secretData = <<>>
  /\ chunkAt = 0
  /\ store \in {[present |-> FALSE, data |-> <<>>],
                [present |-> TRUE, data |-> <<[k |-> <<"o","l","d">>, v |-> <<"b","2","x","k">>]>>]}
  /\ calls = <<>>
  /\ kubeDir = FALSE
  /\ kubeFile = FALSE
  /\ outputs = NoOutputs
  /\ failed = 0
  /\ failure = ""
  /\ log = Line("info", "start")
  /\ now = 0
  /\ filesSeen = 0
  /\ sigRead = <<>>
  /\ bundleExists \in BOOLEAN
  /\ racers = <<>>

\* ---------------------------------------------------------------- run: catch
\* An error thrown anywhere inside run's try block: core.error, core.debug
\* and core.setFailed, and run returns.
Throw(what) ==
  /\ pc' = "failed"
  /\ failed' = failed + 1
  /\ failure' = what
  /\ log' = Line("error", what)

\* ------------------------------------------------------------- run: inputs
\* run(): the three required inputs are checked before anything else.
Validate ==
  /\ pc = "start"
  /\ IF bundlePath = <<>> THEN Throw("tauri-bundle-path input is required")
     ELSE IF kubeConfig = <<>> THEN Throw("kubernetes-config input is required")
     ELSE IF secretName = <<>> THEN Throw("secret-name input is required")
     ELSE /\ pc' = "setup"
          /\ log' = Line("info", "inputs")
          /\ UNCHANGED <<failed, failure>>
  /\ UNCHANGED <<inputVars, raceVars, extractVars, secretVars, setupVars, calls, outputs>>

\* setupKubectl writing the kubeconfig without the white-space check.
SetupKubeconfig_NoTrim ==
  /\ pc = "setup"
  /\ \E homeOk \in BOOLEAN, dirExists \in BOOLEAN :
       IF ~homeOk
       THEN /\ Throw("Cannot determine home directory")
            /\ UNCHANGED <<kubeDir, kubeFile>>
       ELSE /\ kubeDir' = ~dirExists
            /\ kubeFile' = TRUE
            /\ pc' = "probe"
            /\ log' = Line("info", "kubeconfig")
            /\ UNCHANGED <<failed, failure>>
  /\ UNCHANGED <<inputVars, raceVars, extractVars, secretVars, calls, outputs>>

\* setupKubectl(), first half: the home directory is resolved and ~/.kube
\* made; then the kubeconfig content is validated and written.
SetupKubeconfig ==
  /\ pc = "setup"
  /\ \E homeOk \in BOOLEAN, dirExists \in BOOLEAN :
       IF ~homeOk
       THEN /\ Throw("Cannot determine home directory")
            /\ UNCHANGED <<kubeDir, kubeFile>>
       ELSE /\ kubeDir' = ~dirExists
            /\ IF Trim(kubeConfig) = <<>>
               THEN /\ Throw("kubernetes-config input is empty")
                    /\ UNCHANGED kubeFile
               ELSE /\ kubeFile' = TRUE
                    /\ pc' = "probe"
                    /\ \E chmodOk \in BOOLEAN :
                         log' = IF chmodOk THEN Line("info", "kubeconfig")
                                ELSE Line("warning", "Could not set kubeconfig permissions")
                    /\ UNCHANGED <<failed, failure>>
  /\ UNCHANGED <<inputVars, raceVars, extractVars, secretVars, calls, outputs>>

\* setupKubectl(), second half: kubectl version --client.
SetupProbe ==
  /\ pc = "probe"
  /\ \E ok \in BOOLEAN :
       /\ calls' = Append(calls, Call("version", "none", <<>>, ok))
       /\ IF ok
          THEN /\ pc' = "extract"
               /\ log' = Line("info", "kubectl configured")
               /\ UNCHANGED <<failed, failure>>
          ELSE Throw("Failed to configure kubectl")
  /\ UNCHANGED <<inputVars, raceVars, extractVars, secretVars, setupVars, outputs>>

\* ------------------------------------------------------ extractSignatures
\* file.endsWith('.sig')
IsSigFile(file) == EndsWith(file, Chars(".sig"))

\* crypto.createHash('sha256').update(c).digest('hex'): a function of the
\* content, left uninterpreted.
Sha256(c) == <<"sha256", c>>

\* The record stored for one signature file.
SignatureRecord(bundleType, sigFile, sigContent, t) ==
  [content |-> sigContent,
   hash |-> Sha256(sigContent),
   file |-> sigFile,
   timestamp |-> t,
   path |-> <<bundleType, sigFile>>]

\* `${bundleType}-${filename}`
CatalogKey(bundleType, filename) == Chars(bundleType) \o <<"-">> \o filename

\* The platform and the category the loops stand at.
CurPlatform == platforms[pIdx]
CurBundleType == PLATFORM_PATHS[CurPlatform][bIdx]

\* path.resolve(bundlePath): an absolute path.
Resolve(p) == IF p # <<>> /\ Head(p) = "/" THEN p ELSE <<"/">> \o p

\* A missing bundle path taken for a bundle without signatures.
BundleMissing_AsEmpty ==
  /\ pc = "extract"
  /\ ~bundleExists
  /\ pc' = "count"
  /\ log' = Line("warning", "Bundle path does not exist")
  /\ UNCHANGED <<inputVars, raceVars, extractVars, secretVars, setupVars, calls, outputs,
                 failed, failure>>

\* The bundle path does not exist: extractSignatures throws.
BundleMissing ==
  /\ pc = "extract"
  /\ ~bundleExists
  /\ Throw("Bundle directory not found")
  /\ UNCHANGED <<inputVars, raceVars, extractVars, secretVars, setupVars, calls, outputs>>

\* The bundle path exists: the loop over this.platforms starts.
BundleFound ==
  /\ pc = "extract"
  /\ bundleExists
  /\ bundlePath' = Resolve(bundlePath)
  /\ pIdx' = 1
  /\ pc' = "platform"
  /\ log' = Line("info", "Bundle path")
  /\ UNCHANGED <<kubeConfig, secretName, keyPrefix, platforms, signatures,
                 signatureCount, bIdx, sigFiles, platformSigs, now, filesSeen, sigRead,
                 bundleExists, raceVars, secretVars, setupVars, calls, outputs,
                 failed, failure>>

\* !PLATFORM_PATHS[platform]: a warning, and the next platform.
UnknownPlatform ==
  /\ pc = "platform"
  /\ pIdx <= Len(platforms)
  /\ PlatformLookup(CurPlatform) = "undefined"
  /\ pIdx' = pIdx + 1
  /\ log' = Line("warning", "Unknown platform")
  /\ UNCHANGED <<inputVars, raceVars, signatures, signatureCount, bIdx, sigFiles,
                 platformSigs, now, filesSeen, sigRead, secretVars, setupVars, calls,
                 outputs, failed, failure, pc>>

\* PLATFORM_PATHS[platform] is an inherited property: the check lets it
\* through and 'for (const bundleType of ...)' throws a TypeError, which
\* nothing below run catches.
PlatformNotIterable ==
  /\ pc = "platform"
  /\ pIdx <= Len(platforms)
  /\ PlatformLookup(CurPlatform) = "inherited"
  /\ Throw("PLATFORM_PATHS[platform] is not iterable")
  /\ UNCHANGED <<inputVars, raceVars, extractVars, secretVars, setupVars, calls, outputs>>

\* extractPlatformSignatures(platform) starts with an empty catalog.
EnterPlatform ==
  /\ pc = "platform"
  /\ pIdx <= Len(platforms)
  /\ PlatformLookup(CurPlatform) = "own"
  /\ platformSigs' = <<>>
  /\ bIdx' = 1
  /\ pc' = "category"
  /\ log' = Line("info", "Processing platform")
  /\ UNCHANGED <<inputVars, raceVars, signatures, signatureCount, pIdx, sigFiles, now,
                 filesSeen, sigRead, secretVars, setupVars, calls, outputs, failed, failure>>

\* fs.existsSync(bundleDir) is false: the next category.
DirAbsent ==
  /\ pc = "category"
  /\ bIdx <= Len(PLATFORM_PATHS[CurPlatform])
  /\ bIdx' = bIdx + 1
  /\ log' = Line("info", "Not found")
  /\ UNCHANGED <<inputVars, raceVars, signatures, signatureCount, pIdx, sigFiles,
                 platformSigs, now, filesSeen, sigRead, secretVars, setupVars, calls,
                 outputs, failed, failure, pc>>

\* fs.readdirSync(bundleDir) throws: a warning, and the next category.
DirUnlistable ==
  /\ pc = "category"
  /\ bIdx <= Len(PLATFORM_PATHS[CurPlatform])
  /\ bIdx' = bIdx + 1
  /\ log' = Line("warning", "Error processing")
  /\ UNCHANGED <<inputVars, raceVars, signatures, signatureCount, pIdx, sigFiles,
                 platformSigs, now, filesSeen, sigRead, secretVars, setupVars, calls,
                 outputs, failed, failure, pc>>

\* fs.readdirSync(bundleDir) lists the directory; the '.sig' entries are kept.
ListDir ==
  /\ pc = "category"
  /\ bIdx <= Len(PLATFORM_PATHS[CurPlatform])
  /\ \E files \in Listings(CurBundleType, MaxFiles - filesSeen) :
       /\ sigFiles' = SelectSeq(files, IsSigFile)
       /\ filesSeen' = filesSeen + Len(files)
  /\ pc' = "file"
  /\ log' = Line("info", "Signature files")
  /\ UNCHANGED <<inputVars, raceVars, signatures, signatureCount, pIdx, bIdx,
                 platformSigs, now, sigRead, secretVars, setupVars, calls, outputs,
                 failed, failure>>

\* The next signature file of the directory, and its path.
SigFile == Head(sigFiles)

\* The locals of one turn of the loop over the signature files: the
\* category, sigFile, what reading it gave (<<raw>>, or <<>> when the file
\* was gone or unreadable) and the clock at that moment.
Met(read) ==
  [bundleType |-> CurBundleType, file |-> SigFile, read |-> read, t |-> now]

\* fs.existsSync(sigPath) is false: a warning, and the next file.
FileMissing ==
  /\ pc = "file"
  /\ sigFiles # <<>>
  /\ sigFiles' = Tail(sigFiles)
  /\ sigRead' = <<Met(<<>>)>>
  /\ log' = Line("warning", "Signature file missing")
  /\ UNCHANGED <<inputVars, raceVars, signatures, signatureCount, pIdx, bIdx,
                 platformSigs, now, filesSeen, secretVars, setupVars, calls,
                 outputs, failed, failure, pc>>

\* fs.readFileSync(sigPath) throws: a warning, and the next file.
FileUnreadable ==
  /\ pc = "file"
  /\ sigFiles # <<>>
  /\ sigFiles' = Tail(sigFiles)
  /\ sigRead' = <<Met(<<>>)>>
  /\ log' = Line("warning", "Error reading")
  /\ UNCHANGED <<inputVars, raceVars, signatures, signatureCount, pIdx, bIdx,
                 platformSigs, now, filesSeen, secretVars, setupVars, calls,
                 outputs, failed, failure, pc>>

\* The file is read: empty content and an empty sanitized name are skipped
\* with a warning, anything else is stored under its key and counted.  The
\* clock may or may not have moved on by the next record.
ReadFile ==
  /\ pc = "file"
  /\ sigFiles # <<>>
  /\ \E raw \in FileContents, tick \in {0, 1} :
       /\ sigRead' = <<Met(<<raw>>)>>
       /\ LET sigContent == Trim(raw)
              filename == Sanitize(Basename(SigFile, Chars(".sig")))
              key == CatalogKey(CurBundleType, filename)
          IN  IF sigContent = <<>>
              THEN /\ log' = Line("warning", "Empty signature file")
                   /\ UNCHANGED <<platformSigs, signatureCount, now>>
              ELSE IF filename = <<>>
              THEN /\ log' = Line("warning", "Invalid filename")
                   /\ UNCHANGED <<platformSigs, signatureCount, now>>
              ELSE /\ platformSigs' =
                        Put(platformSigs, key,
                            SignatureRecord(CurBundleType, SigFile, sigContent, now))
                   /\ signatureCount' = signatureCount + 1
                   /\ now' = now + tick
                   /\ log' = Line("info", "Extracted")
  /\ sigFiles' = Tail(sigFiles)
  /\ UNCHANGED <<inputVars, raceVars, signatures, pIdx, bIdx, filesSeen, secretVars,
                 setupVars, calls, outputs, failed, failure, pc>>

\* The files of the directory are done: the next category.
DirDone ==
  /\ pc = "file"
  /\ sigFiles = <<>>
  /\ bIdx' = bIdx + 1
  /\ sigRead' = <<>>
  /\ pc' = "category"
  /\ UNCHANGED <<inputVars, raceVars, signatures, signatureCount, pIdx, sigFiles,
                 platformSigs, now, filesSeen, secretVars, setupVars, calls,
                 outputs, failed, failure, log>>

\* extractSignatures storing a platform's catalog even when it is empty.
PlatformDone_StoreEmpty ==
  /\ pc = "category"
  /\ bIdx > Len(PLATFORM_PATHS[CurPlatform])
  /\ signatures' = Put(signatures, CurPlatform, platformSigs)
  /\ log' = Line("info", "Found signatures")
  /\ pIdx' = pIdx + 1
  /\ pc' = "platform"
  /\ UNCHANGED <<inputVars, raceVars, signatureCount, bIdx, sigFiles, platformSigs,
                 now, filesSeen, sigRead, secretVars, setupVars, calls, outputs,
                 failed, failure>>

\* extractPlatformSignatures returns: a non-empty catalog is stored under the
\* platform, and the next platform follows.
PlatformDone ==
  /\ pc = "category"
  /\ bIdx > Len(PLATFORM_PATHS[CurPlatform])
  /\ IF platformSigs # <<>>
     THEN /\ signatures' = Put(signatures, CurPlatform, platformSigs)
          /\ log' = Line("info", "Found signatures")
     ELSE /\ UNCHANGED signatures
          /\ log' = Line("info", "No signatures found")
  /\ pIdx' = pIdx + 1
  /\ pc' = "platform"
  /\ UNCHANGED <<inputVars, raceVars, signatureCount, bIdx, sigFiles, platformSigs, now,
                 filesSeen, sigRead, secretVars, setupVars, calls, outputs, failed, failure>>

\* The loop over the platforms is done: extractSignatures returns.
PlatformsDone ==
  /\ pc = "platform"
  /\ pIdx > Len(platforms)
  /\ pc' = "count"
  /\ log' = Line("info", "Total")
  /\ UNCHANGED <<inputVars, raceVars, extractVars, secretVars, setupVars, calls, outputs,
                 failed, failure>>

\* ------------------------------------------------------ findMainSignature
\* Preferred without the '.zip.sig' exclusion of the Windows rule.
Preferred_NoZipCheck(platform, sigData) ==
  CASE platform = "windows" -> Includes(sigData.file, Chars(".msi.sig"))
    [] platform = "macos" ->
         \/ Includes(sigData.file, Chars(".dmg.sig"))
         \/ Includes(sigData.file, Chars(".app.tar.gz.sig"))
    [] platform = "linux" -> Includes(sigData.file, Chars(".deb.sig"))
    [] OTHER -> FALSE

\* The preference test findMainSignature applies to a record of a platform.
Preferred(platform, sigData) ==
  CASE platform = "windows" ->
         /\ Includes(sigData.file, Chars(".msi.sig"))
         /\ ~Includes(sigData.file, Chars(".zip.sig"))
    [] platform = "macos" ->
         \/ Includes(sigData.file, Chars(".dmg.sig"))
         \/ Includes(sigData.file, Chars(".app.tar.gz.sig"))
    [] platform = "linux" -> Includes(sigData.file, Chars(".deb.sig"))
    [] OTHER -> FALSE

\* The inner loop: the first preferred record of one platform's catalog,
\* as a sequence of at most one record.
RECURSIVE FirstPreferredIn(_, _)
FirstPreferredIn(platform, platformCatalog) ==
  IF platformCatalog = <<>> THEN <<>>
  ELSE IF Preferred(platform, Head(platformCatalog).v)
       THEN <<Head(platformCatalog).v>>
       ELSE FirstPreferredIn(platform, Tail(platformCatalog))

\* The first pair of loops: the first preferred record over the platforms.
RECURSIVE FirstPreferred(_)
FirstPreferred(sigs) ==
  IF sigs = <<>> THEN <<>>
  ELSE LET hit == FirstPreferredIn(Head(sigs).k, Head(sigs).v)
       IN  IF hit # <<>> THEN hit ELSE FirstPreferred(Tail(sigs))

\* The fallback loop: the first record of the first platform that has one.
RECURSIVE FirstRecord(_)
FirstRecord(sigs) ==
  IF sigs = <<>> THEN <<>>
  ELSE IF Head(sigs).v # <<>> THEN <<Head(Head(sigs).v).v>>
       ELSE FirstRecord(Tail(sigs))

\* findMainSignature(): <<record>>, or <<>> for null.
FindMainSignature(sigs) ==
  IF FirstPreferred(sigs) # <<>> THEN FirstPreferred(sigs) ELSE FirstRecord(sigs)

\* prepareSecretData taking the first record found instead of the main one.
PrepareSecretData_FirstRecord(sigs, prefix) ==
  LET main == FirstRecord(sigs)
  IN  IF main # <<>>
      THEN Put(<<>>, prefix, Base64(main[1].content))
      ELSE <<>>

\* prepareSecretData(): the main signature's content, base64, under the
\* key prefix; an empty payload when there is no main signature.
PrepareSecretData(sigs, prefix) ==
  LET main == FindMainSignature(sigs)
  IN  IF main # <<>>
      THEN Put(<<>>, prefix, Base64(main[1].content))
      ELSE <<>>

\* ---------------------------------------------------------------- run: end
ZeroOutputs ==
  [set |-> {"signatures-found", "secret-updated", "signature-hashes"},
   found |-> "0", updated |-> "false", hashes |-> JsonStringify(<<>>)]

\* run(): no signature was counted; the three outputs are set and run returns.
NoSignatures ==
  /\ pc = "count"
  /\ signatureCount = 0
  /\ outputs' = ZeroOutputs
  /\ pc' = "done"
  /\ log' = Line("warning", "No signature files found")
  /\ UNCHANGED <<inputVars, raceVars, extractVars, secretVars, setupVars, calls, failed, failure>>

\* run() entering updateKubernetesSecret whatever the count is.
HaveSignatures_Always ==
  /\ pc = "count"
  /\ pc' = "exists"
  /\ log' = Line("info", "Updating Kubernetes secret")
  /\ UNCHANGED <<inputVars, raceVars, extractVars, secretVars, setupVars, calls, outputs,
                 failed, failure>>

\* run(): signatures were counted; updateKubernetesSecret is entered.
HaveSignatures ==
  /\ pc = "count"
  /\ signatureCount # 0
  /\ pc' = "exists"
  /\ log' = Line("info", "Updating Kubernetes secret")
  /\ UNCHANGED <<inputVars, raceVars, extractVars, secretVars, setupVars, calls, outputs,
                 failed, failure>>

\* const chunkSize = 5
ChunkSize == 5

Min(a, b) == IF a < b THEN a ELSE b

\* A slice that takes one entry too many.
Chunk_OneMore(entries, i) ==
  SubSeq(entries, i + 1, Min(i + ChunkSize + 1, Len(entries)))

\* entries.slice(i, i + chunkSize)
Chunk(entries, i) == SubSeq(entries, i + 1, Min(i + ChunkSize, Len(entries)))

\* A merge patch of the data: every entry of the patch is put into the data.
RECURSIVE MergeData(_, _)
MergeData(data, patch) ==
  IF patch = <<>> THEN data
  ELSE MergeData(Put(data, Head(patch).k, Head(patch).v), Tail(patch))

\* -------------------------------------------------- updateKubernetesSecret
\* checkSecretExists telling a query error from not-found, and raising it.
CheckSecretExists_Raises ==
  /\ pc = "exists"
  /\ \E ok \in BOOLEAN :
       /\ ok => store.present
       /\ calls' = Append(calls, Call("get", "none", <<>>, ok))
       /\ secretExists' = ok
       /\ IF ~ok /\ store.present
          THEN Throw("Failed to update Kubernetes secret")
          ELSE /\ pc' = "prepare"
               /\ UNCHANGED <<failed, failure, log>>
  /\ UNCHANGED <<inputVars, raceVars, extractVars, mainSignature, secretData, chunkAt,
                 store, setupVars, outputs>>

\* checkSecretExists(): kubectl get secret; true when it exits with zero,
\* false on any failure.
CheckSecretExists ==
  /\ pc = "exists"
  /\ \E ok \in BOOLEAN :
       /\ ok => store.present
       /\ calls' = Append(calls, Call("get", "none", <<>>, ok))
       /\ secretExists' = ok
  /\ pc' = "prepare"
  /\ UNCHANGED <<inputVars, raceVars, extractVars, mainSignature, secretData, chunkAt,
                 store, setupVars, outputs, failed, failure, log>>

\* const secretData = this.prepareSecretData(), and the branch on secretExists.
Prepare ==
  /\ pc = "prepare"
  /\ mainSignature' = FindMainSignature(signatures)
  /\ secretData' = PrepareSecretData(signatures, keyPrefix)
  /\ log' = IF FindMainSignature(signatures) # <<>>
            THEN Line("info", "Set key with signature content")
            ELSE Line("warning", "No main signature found")
  /\ pc' = IF secretExists THEN "delete" ELSE "apply"
  /\ UNCHANGED <<inputVars, raceVars, extractVars, secretExists, chunkAt, store, setupVars,
                 calls, outputs, failed, failure>>

\* patchSecret letting a failed delete escape.
DeleteSecret_Fatal ==
  /\ pc = "delete"
  /\ \E ok \in BOOLEAN :
       /\ ok => store.present
       /\ calls' = Append(calls, Call("delete", "none", <<>>, ok))
       /\ IF ok
          THEN /\ store' = [present |-> FALSE, data |-> <<>>]
               /\ log' = Line("info", "Deleted existing secret")
               /\ pc' = "apply"
               /\ UNCHANGED <<failed, failure>>
          ELSE /\ Throw("Failed to update Kubernetes secret")
               /\ UNCHANGED store
  /\ UNCHANGED <<inputVars, raceVars, extractVars, secretExists, mainSignature, secretData,
                 chunkAt, setupVars, outputs>>

\* patchSecret(): kubectl delete secret; a failure is logged and ignored.
DeleteSecret ==
  /\ pc = "delete"
  /\ \E ok \in BOOLEAN :
       /\ ok => store.present
       /\ calls' = Append(calls, Call("delete", "none", <<>>, ok))
       /\ store' = IF ok THEN [present |-> FALSE, data |-> <<>>] ELSE store
       /\ log' = IF ok THEN Line("info", "Deleted existing secret")
                 ELSE Line("warning", "Could not delete existing secret")
  /\ pc' = "apply"
  /\ UNCHANGED <<inputVars, raceVars, extractVars, secretExists, mainSignature, secretData,
                 chunkAt, setupVars, outputs, failed, failure>>

\* What kubectl apply leaves in the cluster: the manifest's data, and, of a
\* secret that was there, the keys the last applied manifest did not own.
Applied(old, data) == {data, MergeData(old, data)}

\* createSecret(): kubectl apply -f - with the manifest on standard input;
\* on failure the fallback follows.
ApplySecret ==
  /\ pc = "apply"
  /\ \E ok \in BOOLEAN :
       /\ calls' = Append(calls, Call("apply", "stdin", secretData, ok))
       /\ IF ok
          THEN \E data \in Applied(store.data, secretData) :
                 store' = [present |-> TRUE, data |-> data]
          ELSE UNCHANGED store
       /\ pc' = IF ok THEN "outputs" ELSE "fallback"
       /\ log' = IF ok THEN Line("info", "Created new Kubernetes secret")
                 ELSE Line("error", "kubectl apply failed")
  /\ UNCHANGED <<inputVars, raceVars, extractVars, secretExists, mainSignature, secretData,
                 chunkAt, setupVars, outputs, failed, failure>>

\* createSecretWithPatches swallowing the failure of kubectl create.
CreateEmptySecret_Swallow ==
  /\ pc = "fallback"
  /\ \E ok \in BOOLEAN :
       /\ ok => ~store.present
       /\ calls' = Append(calls, Call("create", "none", <<>>, ok))
       /\ IF ok
          THEN /\ store' = [present |-> TRUE, data |-> <<>>]
               /\ chunkAt' = 0
               /\ pc' = "patch"
               /\ log' = Line("info", "Created empty secret")
          ELSE /\ pc' = "outputs"
               /\ log' = Line("warning", "Failed to create secret with patches")
               /\ UNCHANGED <<store, chunkAt>>
  /\ UNCHANGED <<inputVars, raceVars, extractVars, secretExists, mainSignature, secretData,
                 setupVars, outputs, failed, failure>>

\* createSecretWithPatches(): kubectl create secret generic, an empty secret.
CreateEmptySecret ==
  /\ pc = "fallback"
  /\ \E ok \in BOOLEAN :
       /\ ok => ~store.present
       /\ calls' = Append(calls, Call("create", "none", <<>>, ok))
       /\ IF ok
          THEN /\ store' = [present |-> TRUE, data |-> <<>>]
               /\ chunkAt' = 0
               /\ pc' = "patch"
               /\ log' = Line("info", "Created empty secret")
               /\ UNCHANGED <<failed, failure>>
          ELSE /\ Throw("Failed to update Kubernetes secret")
               /\ UNCHANGED <<store, chunkAt>>
  /\ UNCHANGED <<inputVars, raceVars, extractVars, secretExists, mainSignature, secretData,
                 setupVars, outputs>>

\* createSecretWithPatches logging a failed patch and going on.
PatchChunk_Swallow ==
  /\ pc = "patch"
  /\ chunkAt < Len(secretData)
  /\ \E ok \in BOOLEAN :
       /\ ok => store.present
       /\ calls' = Append(calls, Call("patch", "argv", Chunk(secretData, chunkAt), ok))
       /\ store' = IF ok THEN [store EXCEPT !.data = MergeData(@, Chunk(secretData, chunkAt))]
                   ELSE store
       /\ chunkAt' = chunkAt + ChunkSize
       /\ log' = IF ok THEN Line("info", "Added chunk")
                 ELSE Line("warning", "Failed to add chunk")
  /\ UNCHANGED <<inputVars, raceVars, extractVars, secretExists, mainSignature, secretData,
                 setupVars, outputs, pc, failed, failure>>

\* One turn of the loop: kubectl patch secret --type merge --patch '<json>',
\* the chunk inline in the command.
PatchChunk ==
  /\ pc = "patch"
  /\ chunkAt < Len(secretData)
  /\ \E ok \in BOOLEAN :
       /\ ok => store.present
       /\ calls' = Append(calls, Call("patch", "argv", Chunk(secretData, chunkAt), ok))
       /\ IF ok
          THEN /\ store' = [store EXCEPT !.data = MergeData(@, Chunk(secretData, chunkAt))]
               /\ chunkAt' = chunkAt + ChunkSize
               /\ log' = Line("info", "Added chunk")
               /\ UNCHANGED <<pc, failed, failure>>
          ELSE /\ Throw("Failed to update Kubernetes secret")
               /\ UNCHANGED <<store, chunkAt>>
  /\ UNCHANGED <<inputVars, raceVars, extractVars, secretExists, mainSignature, secretData,
                 setupVars, outputs>>

\* The loop over the chunks ends: createSecretWithPatches returns.
PatchesDone ==
  /\ pc = "patch"
  /\ chunkAt >= Len(secretData)
  /\ pc' = "outputs"
  /\ UNCHANGED <<inputVars, raceVars, extractVars, secretVars, setupVars, calls, outputs,
                 failed, failure, log>>

\* run(): updateKubernetesSecret returned; the three outputs are set.
SetOutputs ==
  /\ pc = "outputs"
  /\ outputs' =
       [set |-> {"signatures-found", "secret-updated", "signature-hashes"},
        found |-> ToString(signatureCount),
        updated |-> "true",
        hashes |-> JsonStringify(signatures)]
  /\ pc' = "done"
  /\ log' = Line("info", "Tauri signatures successfully stored")
  /\ UNCHANGED <<inputVars, raceVars, extractVars, secretVars, setupVars, calls, failed, failure>>

\* -------------------------------------------------------------------- Next
Next ==
  \/ Validate
  \/ SetupKubeconfig
  \/ SetupProbe
  \/ BundleMissing
  \/ BundleFound
  \/ UnknownPlatform
  \/ PlatformNotIterable
  \/ EnterPlatform
  \/ DirAbsent
  \/ DirUnlistable
  \/ ListDir
  \/ FileMissing
  \/ FileUnreadable
  \/ ReadFile
  \/ DirDone
  \/ PlatformDone
  \/ PlatformsDone
  \/ NoSignatures
  \/ HaveSignatures
  \/ CheckSecretExists
  \/ Prepare
  \/ DeleteSecret
  \/ ApplySecret
  \/ CreateEmptySecret
  \/ PatchChunk
  \/ PatchesDone
  \/ SetOutputs

Spec == Init /\ [][Next]_vars

\* --------------------------------- updateKubernetesSecret, called directly
\* The class is the module's export: a caller may construct an extractor
\* and call updateKubernetesSecret on whatever catalog the extractor holds.
\* The catalog of one platform with one record.
CatalogOf(platform, bundleType, file, content) ==
  <<[k |-> platform,
     v |-> <<[k |-> CatalogKey(bundleType, Sanitize(Basename(file, Chars(".sig")))),
              v |-> SignatureRecord(bundleType, file, content, 0)]>>]>>

\* The catalogs the call is made on: the empty catalog of a fresh extractor,
\* and catalogs extractSignatures leaves behind.
UpdateCatalogs ==
  { <<>>,
    CatalogOf("windows", "msi", MsiSig, <<"a","b","c","1","2","3">>),
    CatalogOf("macos", "dmg", DmgSig, <<"x","y","z">>),
    CatalogOf("linux", "rpm", UnderSig, <<"a","b","c","1","2","3">>) }

\* new TauriSignatureExtractor(), its catalog, and the call.
UpdateInit ==
  /\ bundlePath = <<"s">>
  /\ kubeConfig = <<"k">>
  /\ secretName = <<"s">>
  /\ \E p \in PrefixInputs : keyPrefix = IF p = <<>> THEN Chars("tauri-sig") ELSE p
  /\ platforms = <<"windows", "macos", "linux">>
  /\ signatures \in UpdateCatalogs
  /\ signatureCount = Len(signatures)
  /\ pc = "exists"
  /\ pIdx = 0
  /\ bIdx = 0
  /\ sigFiles = <<>>
  /\ platformSigs = <<>>
  /\ secretExists = FALSE
  /\ mainSignature = <<>>
  /\ secretData = <<>>
  /\ chunkAt = 0
  /\ store \in {[present |-> FALSE, data |-> <<>>],
                [present |-> TRUE, data |-> <<[k |-> <<"o","l","d">>, v |-> <<"b","2","x","k">>]>>]}
  /\ calls = <<>>
  /\ kubeDir = FALSE
  /\ kubeFile = FALSE
  /\ outputs = NoOutputs
  /\ failed = 0
  /\ failure = ""
  /\ log = Line("info", "Updating Kubernetes secret")
  /\ now = 0
  /\ filesSeen = 0
  /\ sigRead = <<>>
  /\ bundleExists = TRUE
  /\ racers = <<>>

\* The steps of updateKubernetesSecret; at "outputs" it has returned, at
\* "failed" its error has left it.
UpdateNext ==
  \/ CheckSecretExists
  \/ Prepare
  \/ DeleteSecret
  \/ ApplySecret
  \/ CreateEmptySecret
  \/ PatchChunk
  \/ PatchesDone

UpdateSpec == UpdateInit /\ [][UpdateNext]_vars

\* ------------------------------------------- createSecret, called directly
\* The secretData createSecret is given: n entries of distinct keys, in
\* insertion order.
PayloadOf(n) ==
  [i \in 1..n |-> [k |-> <<"k", B64Alphabet[i]>>, v |-> <<"Y","Q","=","=">>]]

\* An extractor as constructed, and createSecret called on a payload of up
\* to MaxEntries entries, the secret being absent or present.
CreateInit ==
  /\ bundlePath = <<"s">>
  /\ kubeConfig = <<"k">>
  /\ secretName = <<"s">>
  /\ keyPrefix = Chars("tauri-sig")
  /\ platforms = <<"windows", "macos", "linux">>
  /\ signatures = <<>>
  /\ signatureCount = 0
  /\ pc = "apply"
  /\ pIdx = 0
  /\ bIdx = 0
  /\ sigFiles = <<>>
  /\ platformSigs = <<>>
  /\ secretExists = FALSE
  /\ mainSignature = <<>>
  /\ \E n \in 0..MaxEntries : secretData = PayloadOf(n)
  /\ chunkAt = 0
  /\ store \in {[present |-> FALSE, data |-> <<>>],
                [present |-> TRUE, data |-> <<[k |-> <<"o","l","d">>, v |-> <<"b","2","x","k">>]>>]}
  /\ calls = <<>>
  /\ kubeDir = FALSE
  /\ kubeFile = FALSE
  /\ outputs = NoOutputs
  /\ failed = 0
  /\ failure = ""
  /\ log = Line("info", "Creating new Kubernetes secret")
  /\ now = 0
  /\ filesSeen = 0
  /\ sigRead = <<>>
  /\ bundleExists = TRUE
  /\ racers = <<>>

\* The steps of createSecret and createSecretWithPatches.
CreateNext ==
  \/ ApplySecret
  \/ CreateEmptySecret
  \/ PatchChunk
  \/ PatchesDone

CreateSpec == CreateInit /\ [][CreateNext]_vars

\* ------------------------------------- two runs reconciling the same secret
\* Two runs of updateKubernetesSecret, each a process of its own with its
\* own extractor, against one cluster.  The store answers each kubectl call
\* atomically: get and delete succeed exactly when the secret is there,
\* apply creates the secret or overwrites it and cannot fail, so the catch
\* of createSecret is never entered.
Runs == {1, 2}

\* The catalogs extractSignatures left each run with.
RaceCatalogs == UpdateCatalogs \ {<<>>}

\* One run as updateKubernetesSecret is entered.
Racer(sigs, prefix) ==
  [pc |-> "exists", signatures |-> sigs, keyPrefix |-> prefix,
   secretExists |-> FALSE, secretData |-> <<>>, updated |-> "", failed |-> 0]

RaceInit ==
  /\ bundlePath = <<"s">>
  /\ kubeConfig = <<"k">>
  /\ secretName = <<"s">>
  /\ keyPrefix = Chars("tauri-sig")
  /\ platforms = <<"windows", "macos", "linux">>
  /\ signatures = <<>>
  /\ signatureCount = 0
  /\ pc = "exists"
  /\ pIdx = 0
  /\ bIdx = 0
  /\ sigFiles = <<>>
  /\ platformSigs = <<>>
  /\ secretExists = FALSE
  /\ mainSignature = <<>>
  /\ secretData = <<>>
  /\ chunkAt = 0
  /\ store \in {[present |-> FALSE, data |-> <<>>],
                [present |-> TRUE, data |-> <<[k |-> <<"o","l","d">>, v |-> <<"b","2","x","k">>]>>]}
  /\ calls = <<>>
  /\ kubeDir = FALSE
  /\ kubeFile = FALSE
  /\ outputs = NoOutputs
  /\ failed = 0
  /\ failure = ""
  /\ log = Line("info", "Updating Kubernetes secret")
  /\ now = 0
  /\ filesSeen = 0
  /\ sigRead = <<>>
  /\ bundleExists = TRUE
  /\ \E c1 \in RaceCatalogs, c2 \in RaceCatalogs :
     \E p1 \in PrefixInputs, p2 \in PrefixInputs :
       racers = << Racer(c1, IF p1 = <<>> THEN Chars("tauri-sig") ELSE p1),
                   Racer(c2, IF p2 = <<>> THEN Chars("tauri-sig") ELSE p2) >>

\* What a step of one of the runs leaves alone: the single extractor.
RaceFrame ==
  UNCHANGED <<inputVars, extractVars, secretExists, mainSignature, secretData,
              chunkAt, setupVars, outputs, failed, failure, log, pc>>

\* checkSecretExists() of run r.
RaceCheckSecretExists(r) ==
  /\ racers[r].pc = "exists"
  /\ calls' = Append(calls, Call("get", "none", <<>>, store.present))
  /\ racers' = [racers EXCEPT ![r].secretExists = store.present,
                              ![r].pc = "prepare"]
  /\ UNCHANGED store
  /\ RaceFrame

\* prepareSecretData() of run r, and the branch on secretExists.
RacePrepare(r) ==
  /\ racers[r].pc = "prepare"
  /\ racers' = [racers EXCEPT
                  ![r].secretData =
                     PrepareSecretData(racers[r].signatures, racers[r].keyPrefix),
                  ![r].pc = IF racers[r].secretExists THEN "delete" ELSE "apply"]
  /\ UNCHANGED <<store, calls>>
  /\ RaceFrame

\* patchSecret of run r treating a failed delete as an error.
RaceDeleteSecret_Fatal(r) ==
  /\ racers[r].pc = "delete"
  /\ calls' = Append(calls, Call("delete", "none", <<>>, store.present))
  /\ store' = [present |-> FALSE, data |-> <<>>]
  /\ racers' = IF store.present
               THEN [racers EXCEPT ![r].pc = "apply"]
               ELSE [racers EXCEPT ![r].pc = "failed", ![r].failed = 1]
  /\ RaceFrame

\* patchSecret() of run r: kubectl delete secret; when the secret is gone
\* already the failure is logged and ignored.
RaceDeleteSecret(r) ==
  /\ racers[r].pc = "delete"
  /\ calls' = Append(calls, Call("delete", "none", <<>>, store.present))
  /\ store' = [present |-> FALSE, data |-> <<>>]
  /\ racers' = [racers EXCEPT ![r].pc = "apply"]
  /\ RaceFrame

\* createSecret() of run r: kubectl apply -f - puts the manifest's data in
\* the place of whatever was there.
RaceApplySecret(r) ==
  /\ racers[r].pc = "apply"
  /\ calls' = Append(calls, Call("apply", "stdin", racers[r].secretData, TRUE))
  /\ store' = [present |-> TRUE, data |-> racers[r].secretData]
  /\ racers' = [racers EXCEPT ![r].pc = "outputs"]
  /\ RaceFrame

\* run() of run r: updateKubernetesSecret returned, secret-updated is set.
RaceSetOutputs(r) ==
  /\ racers[r].pc = "outputs"
  /\ racers' = [racers EXCEPT ![r].updated = "true", ![r].pc = "done"]
  /\ UNCHANGED <<store, calls>>
  /\ RaceFrame

RaceRun(r) ==
  \/ RaceCheckSecretExists(r)
  \/ RacePrepare(r)
  \/ RaceDeleteSecret(r)
  \/ RaceApplySecret(r)
  \/ RaceSetOutputs(r)

RaceNext == RaceRun(1) \/ RaceRun(2)

\* Each run is a process that keeps running its own code.
RaceSpec ==
  /\ RaceInit
  /\ [][RaceNext]_vars
  /\ WF_vars(RaceRun(1))
  /\ WF_vars(RaceRun(2))

\* ------------------------------------------------------------- properties
\* Whether a kubectl sub-command was issued, and the calls that reach the
\* secret (everything but the client version probe).
HasCall(cmd) == \E i \in 1..Len(calls) : calls[i].cmd = cmd
CallsOf(cmd) == {i \in 1..Len(calls) : calls[i].cmd = cmd}
StoreCalls == {i \in 1..Len(calls) : calls[i].cmd # "version"}

\* prepareSecretData has returned.
Prepared ==
  \/ pc \in {"delete", "apply", "fallback", "patch", "outputs"}
  \/ pc \in {"done", "failed"} /\ HasCall("get")

\* Positions <<i, j>> of the records of the catalog, and their order of
\* insertion.
Positions ==
  {p \in (1..Len(signatures)) \X (1..MaxFiles + 1) : p[2] <= Len(signatures[p[1]].v)}
RecordAt(p) == signatures[p[1]].v[p[2]].v
Before(p, q) == p[1] < q[1] \/ (p[1] = q[1] /\ p[2] < q[2])
First(ps) == CHOOSE p \in ps : \A q \in ps : q = p \/ Before(p, q)

\* Scenario A: the catalog holds the one record of msi/App_x64.msi.sig with
\* content abc123, and the key prefix is the default.
ScenarioA ==
  /\ keyPrefix = <<"t","a","u","r","i","-","s","i","g">>
  /\ Len(signatures) = 1
  /\ signatures[1].k = "windows"
  /\ Len(signatures[1].v) = 1
  /\ signatures[1].v[1].k =
       <<"m","s","i","-","A","p","p","_","x","6","4",".","m","s","i">>
  /\ signatures[1].v[1].v.file = MsiSig
  /\ signatures[1].v[1].v.content = <<"a","b","c","1","2","3">>

\* C1: once prepareSecretData has returned for a catalog with at least one
\* record, the payload has exactly one entry, its key is keyPrefix and its
\* value is the base64 text of the main signature's content; in scenario A
\* the payload is exactly { 'tauri-sig': 'YWJjMTIz' }.
C1_SingleKeyPayload ==
  Prepared /\ Positions # {} =>
    /\ Len(secretData) = 1
    /\ secretData[1].k = keyPrefix
    /\ mainSignature # <<>>
    /\ secretData[1].v = Base64(mainSignature[1].content)
    /\ ScenarioA =>
         secretData = <<[k |-> <<"t","a","u","r","i","-","s","i","g">>,
                         v |-> <<"Y","W","J","j","M","T","I","z">>]>>

\* C1 witness: scenario A after prepareSecretData has returned.
C1_Witness == Prepared /\ ScenarioA /\ signatureCount = 1

\* The preference rule as C2 states it, over file names.
C2_Pref(platform, file) ==
  \/ /\ platform = "windows"
     /\ Includes(file, <<".","m","s","i",".","s","i","g">>)
     /\ ~Includes(file, <<".","z","i","p",".","s","i","g">>)
  \/ /\ platform = "macos"
     /\ \/ Includes(file, <<".","d","m","g",".","s","i","g">>)
        \/ Includes(file, <<".","a","p","p",".","t","a","r",".","g","z",".","s","i","g">>)
  \/ /\ platform = "linux"
     /\ Includes(file, <<".","d","e","b",".","s","i","g">>)

C2_PreferredPositions ==
  {p \in Positions : C2_Pref(signatures[p[1]].k, RecordAt(p).file)}

\* C2: the main signature is the first record, in insertion order of the
\* platforms and of each platform's records, that satisfies its platform's
\* preference; when no record does, it is the first record of the catalog.
C2_MainSignatureSelection ==
  Prepared =>
    mainSignature =
      IF C2_PreferredPositions # {} THEN <<RecordAt(First(C2_PreferredPositions))>>
      ELSE IF Positions # {} THEN <<RecordAt(First(Positions))>>
      ELSE <<>>

\* C2 witness: the first platform holds a record that is not preferred and
\* the second platform's preferred record is selected.
C2_Witness ==
  /\ Prepared
  /\ Len(signatures) = 2
  /\ ~C2_Pref(signatures[1].k, signatures[1].v[1].v.file)
  /\ mainSignature = <<signatures[2].v[1].v>>

\* C3: a run whose extraction counted no signature makes no call that
\* reaches the secret, never enters updateKubernetesSecret, and ends with
\* signatures-found '0', secret-updated 'false', signature-hashes '{}' and
\* without setFailed.
C3_ZeroSignaturesSkip ==
  signatureCount = 0 =>
    /\ StoreCalls = {}
    /\ pc \notin {"exists", "prepare", "delete", "apply", "fallback", "patch", "outputs"}
    /\ pc = "done" =>
         /\ outputs.set = {"signatures-found", "secret-updated", "signature-hashes"}
         /\ outputs.found = "0"
         /\ outputs.updated = "false"
         /\ outputs.hashes = JsonStringify(<<>>)
         /\ failed = 0

\* C3 witness: a run that listed files, counted none and is done.
C3_Witness ==
  /\ pc = "done"
  /\ signatureCount = 0
  /\ filesSeen > 0
  /\ outputs.updated = "false"

\* The existence check and what it reported.
GetAt == CHOOSE i \in CallsOf("get") : TRUE
GetOk == \E i \in CallsOf("get") : calls[i].ok
GetFailed == \E i \in CallsOf("get") : ~calls[i].ok
Suffix(n) == SubSeq(calls, n + 1, Len(calls))

\* The calls of one create path: kubectl apply with the payload on standard
\* input; only when it failed kubectl create, and only when that succeeded
\* the patches.
IsCreatePath(cs) ==
  \/ cs = <<>>
  \/ /\ cs[1].cmd = "apply"
     /\ cs[1].via = "stdin"
     /\ cs[1].data = secretData
     /\ cs[1].ok => Len(cs) = 1
     /\ Len(cs) >= 2 =>
          /\ cs[2].cmd = "create"
          /\ ~cs[2].ok => Len(cs) = 2
          /\ \A i \in 3..Len(cs) : cs[i].cmd = "patch"

\* The create path failed: the apply and then the create or a patch.
CreatePathFailed ==
  /\ \E i \in CallsOf("apply") : ~calls[i].ok
  /\ \E i \in CallsOf("create") \cup CallsOf("patch") : ~calls[i].ok

\* C4: once the existence check has reported the secret and patchSecret has
\* made its delete, the calls hold exactly one delete, right after the get;
\* whether it succeeded or not the create path follows it (the same calls a
\* missing secret gets), and the run fails only when that create path fails.
C4_ReplaceExisting ==
  GetOk /\ pc \notin {"prepare", "delete"} =>
    /\ CallsOf("delete") = {GetAt + 1}
    /\ IsCreatePath(Suffix(GetAt + 1))
    /\ pc # "apply" => Suffix(GetAt + 1) # <<>>
    /\ pc = "failed" => CreatePathFailed
    /\ (\E i \in CallsOf("apply") : calls[i].ok) => failed = 0

\* C4 witness: the secret existed, its delete failed, the apply that followed
\* succeeded and the run ended reporting the update.
C4_Witness ==
  /\ GetOk
  /\ \E i \in CallsOf("delete") : ~calls[i].ok
  /\ \E i \in CallsOf("apply") : calls[i].ok
  /\ pc = "done"
  /\ outputs.updated = "true"

\* C5: once the existence check has failed, for a secret that is absent or
\* for one that is there, checkSecretExists has returned false without an
\* error, no delete is ever issued, and the calls that follow the get are
\* those of the create path, with the whole payload.
C5_ExistenceCheckConflates ==
  GetFailed =>
    /\ ~secretExists
    /\ CallsOf("delete") = {}
    /\ IsCreatePath(Suffix(GetAt))
    /\ Suffix(GetAt) = <<>> => pc \in {"prepare", "apply"} /\ failed = 0
    /\ pc \notin {"exists", "delete"}

\* C5 witness: the get failed although the secret was there, the create path
\* ran without a delete and the run ended reporting the update.
C5_Witness ==
  /\ GetFailed
  /\ store.present
  /\ Keys(store.data) = {<<"o","l","d">>, keyPrefix}
  /\ pc = "done"
  /\ outputs.updated = "true"

\* C6: when the bundle path does not exist the run never gets past
\* extractSignatures: no platform is processed, the catalog stays empty, no
\* call reaches the secret, no output is set, and the run that got as far
\* as extractSignatures has failed once with the bundle-not-found error.
C6_BundleNotFoundFatal ==
  ~bundleExists =>
    /\ pc \in {"start", "setup", "probe", "extract", "failed"}
    /\ signatures = <<>>
    /\ signatureCount = 0
    /\ pIdx = 0
    /\ StoreCalls = {}
    /\ outputs = NoOutputs
    /\ pc = "failed" /\ calls = <<Call("version", "none", <<>>, TRUE)>> =>
         /\ failure = "Bundle directory not found"
         /\ failed = 1

\* C6 witness: a run with valid inputs and a working kubectl that failed on
\* the missing bundle path.
C6_Witness ==
  /\ ~bundleExists
  /\ pc = "failed"
  /\ failure = "Bundle directory not found"
  /\ kubeFile

\* A required input is missing, or the kubeconfig is white space only.
ConfigError ==
  \/ bundlePath = <<>>
  \/ kubeConfig = <<>>
  \/ secretName = <<>>
  \/ Trim(kubeConfig) = <<>>

\* C7: with a missing required input or a white-space-only kubeconfig no
\* kubectl call is ever made and no kubeconfig file is written, and the run
\* goes nowhere but to its failure, with one setFailed.
C7_ConfigErrorsAbortEarly ==
  ConfigError =>
    /\ calls = <<>>
    /\ ~kubeFile
    /\ pc \in {"start", "setup", "failed"}
    /\ pc = "failed" => failed = 1
    /\ outputs = NoOutputs

\* C7 witness: a white-space-only kubeconfig got past run's checks, ~/.kube
\* was made, and setupKubectl rejected the content before writing it.
C7_Witness ==
  /\ kubeConfig # <<>>
  /\ Trim(kubeConfig) = <<>>
  /\ pc = "failed"
  /\ failure = "kubernetes-config input is empty"
  /\ kubeDir

\* The warnings of the conditions extractSignatures skips.
SkipWarnings ==
  {"Unknown platform", "Error processing", "Signature file missing",
   "Error reading", "Empty signature file", "Invalid filename"}

\* C8: with an existing bundle root extractSignatures never throws: from the
\* start of its platform loop to its return the run has not failed, whatever
\* platform names, directories and files it met; and each skipped item is
\* logged as a warning with the loops still running.
C8_SkippableNeverAborts ==
  /\ pIdx >= 1 /\ StoreCalls = {} => pc # "failed"
  /\ log.what \in SkipWarnings =>
       log.level = "warning" /\ pc \in {"platform", "category", "file"}

\* The create path succeeded: the apply did, or the create and a patch for
\* every chunk of the payload.
CreatePathSucceeded ==
  \/ \E i \in CallsOf("apply") : calls[i].ok
  \/ /\ \E i \in CallsOf("create") : calls[i].ok
     /\ \A i \in CallsOf("patch") : calls[i].ok
     /\ Cardinality(CallsOf("patch")) * ChunkSize >= Len(secretData)

\* C9: every error ends the run in its handler with exactly one setFailed;
\* when the create path has failed the run is failed with the one error of
\* updateKubernetesSecret and no output is set; and secret-updated is 'true'
\* only when a create path succeeded.
C9_SingleTerminalError ==
  /\ failed <= 1
  /\ pc = "failed" <=> failed = 1
  /\ CreatePathFailed =>
       /\ pc = "failed"
       /\ failure = "Failed to update Kubernetes secret"
       /\ outputs = NoOutputs
  /\ pc = "failed" => outputs = NoOutputs
  /\ outputs.updated = "true" => CreatePathSucceeded /\ failed = 0

\* C9 witness: the apply failed, the empty secret was created, the patch
\* failed, and the run is failed.
C9_Witness ==
  /\ \E i \in CallsOf("create") : calls[i].ok
  /\ \E i \in CallsOf("patch") : ~calls[i].ok
  /\ pc = "failed"
  /\ failed = 1

\* The keys the Readme's "Secret Structure" gives the secret.
DocumentedKeys ==
  {keyPrefix \o <<"-">> \o Chars("metadata")} \cup
  {keyPrefix \o <<"-">> \o Chars(signatures[p[1]].k) \o <<"-">> \o signatures[p[1]].v[p[2]].k :
     p \in Positions}

\* C10: the secret a run has written holds the key '{prefix}-metadata' and
\* one key '{prefix}-{platform}-{catalogKey}' for every record of the
\* catalog.
C10_DocumentedSecretStructure ==
  pc = "done" /\ outputs.updated = "true" => DocumentedKeys \subseteq Keys(store.data)

\* ------------------------------------------------ properties: collection
\* The file the loop over the signature files has just dealt with, whether
\* it could be read, and its content without surrounding white space.
JustRead == pc = "file" /\ sigRead # <<>> /\ sigRead[1].read # <<>>
JustSkipped == pc = "file" /\ sigRead # <<>> /\ sigRead[1].read = <<>>
ReadContent == Trim(sigRead[1].read[1])

\* The file name without its last four characters, '.sig', and with every
\* character outside [A-Za-z0-9._-] replaced by '_'.
SanitizedBaseName(file) ==
  [i \in 1..(Len(file) - 4) |->
     IF file[i] \in Letters \cup Digits \cup {".", "_", "-"} THEN file[i] ELSE "_"]

\* '{category}-{sanitizedBaseName}'
ExpectedKey(bundleType, file) ==
  Chars(bundleType) \o <<"-">> \o SanitizedBaseName(file)

\* The entries of a platform's catalog that are records of a file.
RecordsOf(catalog, bundleType, file) ==
  {i \in 1..Len(catalog) :
     catalog[i].v.file = file /\ catalog[i].v.path = <<bundleType, file>>}

\* The file just read has exactly one record in the platform's catalog,
\* under its expected key, holding its trimmed content.
HasItsRecord ==
  /\ Cardinality(RecordsOf(platformSigs, sigRead[1].bundleType, sigRead[1].file)) = 1
  /\ \A i \in RecordsOf(platformSigs, sigRead[1].bundleType, sigRead[1].file) :
       /\ platformSigs[i].k = ExpectedKey(sigRead[1].bundleType, sigRead[1].file)
       /\ platformSigs[i].v.content = ReadContent
       /\ platformSigs[i].v.timestamp = sigRead[1].t
  /\ Cardinality({i \in 1..Len(platformSigs) :
       platformSigs[i].k = ExpectedKey(sigRead[1].bundleType, sigRead[1].file)}) = 1

\* C11 as stated: every '.sig' file read with non-empty trimmed content has
\* exactly one record in its platform's catalog, under
\* '{category}-{sanitizedBaseName}'.
C11_OneRecordPerFile ==
  JustRead /\ ReadContent # <<>> => HasItsRecord

\* A record of the platform's catalog stays as it is over a step, unless the
\* step reads a file of the same key, whose record takes its place; and the
\* catalog of a platform stays in this.signatures unless the same platform
\* is collected again.
RecordsStay ==
  /\ pc = "file" =>
       \A i \in 1..Len(platformSigs) :
         /\ i <= Len(platformSigs')
         /\ \/ platformSigs'[i] = platformSigs[i]
            \/ /\ sigRead' # <<>>
               /\ sigRead'[1].read # <<>>
               /\ platformSigs[i].k =
                    ExpectedKey(sigRead'[1].bundleType, sigRead'[1].file)
               /\ platformSigs'[i].k = platformSigs[i].k
  /\ pc = "category" /\ pc' = "platform" /\ platformSigs # <<>> =>
       \E i \in 1..Len(signatures') :
         signatures'[i] = [k |-> CurPlatform, v |-> platformSigs]
  /\ \A i \in 1..Len(signatures) :
       /\ i <= Len(signatures')
       /\ \/ signatures'[i] = signatures[i]
          \/ pc = "category" /\ pc' = "platform" /\ signatures[i].k = CurPlatform

\* C11, amended: every '.sig' file read with non-empty trimmed content and a
\* base name that is not empty has, once it is processed, exactly one record
\* in its platform's catalog, under '{category}-{sanitizedBaseName}'; the
\* record stays until a later file of the same key replaces it, and the
\* catalog is stored under the platform when its collection returns.
C11_OneRecordPerNamedFile ==
  /\ [](JustRead /\ ReadContent # <<>>
          /\ SanitizedBaseName(sigRead[1].file) # <<>> => HasItsRecord)
  /\ [][RecordsStay]_vars

\* C11 witness: 'a b.sig' was read with content and is stored under a key
\* that ends in 'a_b'.
C11_Witness ==
  /\ JustRead
  /\ sigRead[1].file = SpaceSig
  /\ ReadContent # <<>>
  /\ \E i \in 1..Len(platformSigs) :
       /\ platformSigs[i].v.file = SpaceSig
       /\ platformSigs[i].k = Chars(sigRead[1].bundleType) \o <<"-", "a", "_", "b">>

\* White space, a text of white space only (the empty text included), and a
\* text that neither starts nor ends with white space.
WhiteSpace == {" ", "\t", "\n", "\r"}
Blank(s) == \A i \in 1..Len(s) : s[i] \in WhiteSpace
NoOuterSpace(s) == s # <<>> /\ s[1] \notin WhiteSpace /\ s[Len(s)] \notin WhiteSpace

\* The records of every catalog the extractor holds.
AllRecords ==
  {platformSigs[i].v : i \in 1..Len(platformSigs)} \cup
  UNION {{signatures[p].v[i].v : i \in 1..Len(signatures[p].v)} :
           p \in 1..Len(signatures)}

\* A step of the loop over the signature files that met a file it could not
\* read, or one with nothing but white space in it.
FileStep == pc = "file" /\ sigFiles # <<>> /\ sigFiles' = Tail(sigFiles)
NothingRead ==
  FileStep /\ (sigRead'[1].read = <<>> \/ Blank(sigRead'[1].read[1]))

\* C12: every record of the catalog has content that is not empty and has
\* no white space around it; and a '.sig' file that is empty, white space
\* only, gone or unreadable leaves the catalogs and signatureCount as they
\* were.
C12_NonEmptyContent ==
  /\ [](\A r \in AllRecords : NoOuterSpace(r.content))
  /\ [][NothingRead =>
          /\ platformSigs' = platformSigs
          /\ signatures' = signatures
          /\ signatureCount' = signatureCount]_vars

\* C12 witness: after one record was stored, a file of white space only was
\* read, and the catalog and the count are those of the one record.
C12_Witness ==
  /\ JustRead
  /\ sigRead[1].read[1] # <<>>
  /\ Blank(sigRead[1].read[1])
  /\ Len(platformSigs) = 1
  /\ platformSigs[1].v.file # sigRead[1].file
  /\ signatureCount = 1

\* A step of the loop that read a file with content and a name, whose key
\* another file's record already holds in the platform's catalog.
Collision ==
  /\ FileStep
  /\ sigRead'[1].read # <<>>
  /\ ~Blank(sigRead'[1].read[1])
  /\ SanitizedBaseName(sigRead'[1].file) # <<>>
  /\ \E i \in 1..Len(platformSigs) :
       /\ platformSigs[i].k = ExpectedKey(sigRead'[1].bundleType, sigRead'[1].file)
       /\ platformSigs[i].v.file # sigRead'[1].file

\* C14: when a file sanitizes to a key another file of the platform already
\* holds, the catalog keeps one record under that key, in its place, and it
\* is the record of the later file, while signatureCount goes up by one as
\* for any file; no catalog ever holds a key twice.
C14_CollisionLastWriteWins ==
  /\ [][Collision =>
          /\ Len(platformSigs') = Len(platformSigs)
          /\ signatureCount' = signatureCount + 1
          /\ \A i \in 1..Len(platformSigs) :
               IF platformSigs[i].k =
                    ExpectedKey(sigRead'[1].bundleType, sigRead'[1].file)
               THEN /\ platformSigs'[i].k = platformSigs[i].k
                    /\ platformSigs'[i].v.file = sigRead'[1].file
                    /\ platformSigs'[i].v.path =
                         <<sigRead'[1].bundleType, sigRead'[1].file>>
                    /\ NoOuterSpace(platformSigs'[i].v.content)
               ELSE platformSigs'[i] = platformSigs[i]]_vars
  /\ [](\A i, j \in 1..Len(platformSigs) :
          platformSigs[i].k = platformSigs[j].k => i = j)

\* C14 witness: 'a_b.sig' and then 'a b.sig' of linux/rpm were read with
\* content; two signatures are counted and the one record is that of
\* 'a b.sig'.
C14_Witness ==
  /\ platforms = <<"linux", "windows">>
  /\ JustRead
  /\ sigRead[1].file = SpaceSig
  /\ signatureCount = 2
  /\ Len(platformSigs) = 1
  /\ platformSigs[1].k = <<"r","p","m","-","a","_","b">>
  /\ platformSigs[1].v.file = SpaceSig

\* ------------------------------------------- properties: reconciliation
\* The calls that write to the secret.
WriteCalls == {i \in 1..Len(calls) : calls[i].cmd \in {"delete", "apply", "create", "patch"}}

PatchCalls == SelectSeq(calls, LAMBDA c : c.cmd = "patch")
KthChunk(k) ==
  [j \in 1..(IF 5 * k <= Len(secretData) THEN 5 ELSE Len(secretData) - 5 * (k - 1))
     |-> secretData[5 * (k - 1) + j]]
RECURSIVE Concat(_)
Concat(ss) == IF ss = <<>> THEN <<>> ELSE Head(ss) \o Concat(Tail(ss))

\* C15: the empty secret is created, and patches are issued, exactly when
\* kubectl apply has failed; the k-th patch carries entries 5(k-1)+1 .. 5k of
\* the payload (fewer at its end), so at most five, disjoint and in order;
\* a completed fallback has made ceil(n/5) patches that together are the
\* payload; and a failed create or patch is the last call made and ends
\* the reconciliation in failure.
C15_ChunkedFallback ==
  /\ (HasCall("create") \/ HasCall("patch")) =>
       /\ calls[1].cmd = "apply" /\ ~calls[1].ok
       /\ calls[2].cmd = "create"
  /\ (Len(calls) >= 1 /\ ~calls[1].ok) => pc = "fallback" \/ HasCall("create")
  /\ HasCall("patch") => calls[2].ok
  /\ \A k \in 1..Len(PatchCalls) :
       /\ PatchCalls[k].data = KthChunk(k)
       /\ Len(PatchCalls[k].data) \in 1..5
  /\ \A i \in 2..Len(calls) :
       ~calls[i].ok => i = Len(calls) /\ pc = "failed" /\ failed = 1
  /\ pc = "outputs" /\ HasCall("create") =>
       /\ Len(PatchCalls) = (Len(secretData) + 4) \div 5
       /\ Concat([k \in 1..Len(PatchCalls) |-> PatchCalls[k].data]) = secretData
       /\ store = [present |-> TRUE, data |-> secretData]

\* C15 witness: a payload of eleven entries went through the fallback in
\* patches of five, five and one entries.
C15_Witness ==
  /\ pc = "outputs"
  /\ Len(secretData) = 11
  /\ Len(PatchCalls) = 3
  /\ Len(PatchCalls[1].data) = 5
  /\ Len(PatchCalls[3].data) = 1
  /\ PatchCalls[3].data[1] = secretData[11]

\* C16: every kubectl call that carries payload data, the apply of the
\* manifest and every patch of the fallback, gets it on standard input and
\* never inside the command line.
C16_PayloadViaStdin ==
  \A i \in 1..Len(calls) :
    calls[i].cmd \in {"apply", "patch"} \/ calls[i].data # <<>> =>
      calls[i].via = "stdin"

\* The delete of patchSecret succeeded; the data of the patches that did.
DeleteOk == \E i \in CallsOf("delete") : calls[i].ok
PatchedData ==
  Concat([k \in 1..Len(SelectSeq(PatchCalls, LAMBDA c : c.ok)) |->
            SelectSeq(PatchCalls, LAMBDA c : c.ok)[k].data])
OldKey == <<"o","l","d">>

\* C17 as stated: between the successful delete and the end of the create
\* path the secret is absent, and when the create path fails the run is
\* failed and the secret is still absent.
C17_AbsentAfterFailure ==
  /\ DeleteOk /\ pc \in {"apply", "fallback"} => ~store.present
  /\ DeleteOk /\ CreatePathFailed => pc = "failed" /\ ~store.present

\* C17, amended: between the successful delete and the end of the create
\* path the secret is absent; when the create path fails the run is failed
\* and nothing of the previous secret is left: the secret is absent when
\* kubectl create failed, and when a patch failed it is the secret the
\* fallback created, holding the chunks patched so far.
C17_AbsenceWindow ==
  /\ DeleteOk /\ pc \in {"apply", "fallback"} => ~store.present
  /\ DeleteOk /\ CreatePathFailed =>
       /\ pc = "failed"
       /\ failed = 1
       /\ OldKey \notin Keys(store.data)
       /\ (\E i \in CallsOf("create") : ~calls[i].ok) => ~store.present
       /\ (\E i \in CallsOf("patch") : ~calls[i].ok) =>
            store = [present |-> TRUE, data |-> PatchedData]

\* C17 witness: the secret was there, its delete succeeded, the apply
\* failed, and the secret is absent while the fallback is about to start.
C17_Witness ==
  /\ GetOk
  /\ DeleteOk
  /\ pc = "fallback"
  /\ ~store.present

\* Both runs are over; the last apply made.
BothOver == \A r \in Runs : racers[r].pc \in {"done", "failed"}
LastApply == CHOOSE i \in CallsOf("apply") : \A j \in CallsOf("apply") : j <= i

\* C18: under every interleaving both runs come to their end, both report
\* success, and from then on the secret is there and its data is exactly
\* the payload of the run that applied last.
C18_RacingRunsConverge ==
  /\ <>BothOver
  /\ [](BothOver =>
          /\ \A r \in Runs :
               /\ racers[r].pc = "done"
               /\ racers[r].updated = "true"
               /\ racers[r].failed = 0
          /\ store.present
          /\ Cardinality(CallsOf("apply")) = 2
          /\ store.data = calls[LastApply].data
          /\ \E r \in Runs : store.data = racers[r].secretData
          /\ Len(store.data) = 1)

\* C18 witness: both runs saw the secret, the second one's delete found it
\* gone, both are over with different payloads, and the secret holds the
\* payload of the run that applied last.
C18_Witness ==
  /\ racers # <<>>
  /\ BothOver
  /\ \A r \in Runs : racers[r].secretExists
  /\ \E i \in CallsOf("delete") : ~calls[i].ok
  /\ racers[1].secretData # racers[2].secretData
  /\ store.data = calls[LastApply].data

\* extractSignatures is not inside a platform's collection: it has not
\* started, stands between two platforms, has returned or has thrown.
BetweenPlatforms == pc \notin {"category", "file"}

====
